---- MODULE Spec2Model ----
(***************************************************************************)
(* Application lifecycle of the real-estate server:                        *)
(* server/src/controllers/applicationControllers.ts.                       *)
(*                                                                         *)
(* The database (Property, Tenant, Lease, Application rows and the         *)
(* implicit Property<->Tenant relation) is the shared state.  Every HTTP   *)
(* request is a handler instance with its own locals; a handler takes one  *)
(* step per awaited database call, so handlers of different requests       *)
(* interleave exactly at the awaits of the source.                         *)
(***************************************************************************)
EXTENDS Integers, FiniteSets, Sequences, TLC

\* Number of requests the server receives in one behaviour, and how many of
\* them it handles at the same time.
MaxRequests == 3
MaxInFlight == 2

Requests == 1..MaxRequests

\* Number of favorite requests (add or remove) the server receives.
MaxFavRequests == 3

FavRequests == 1..MaxFavRequests

\* Property rows of the database, and the ids a request body may carry (2 is
\* the id of no row).
ExistingProperties == {1}
RequestedProperties == ExistingProperties \cup {2}

\* Tenant rows of the database; "t0" is the cognito id of no row.
ExistingTenants == {"t1"}

\* enum ApplicationStatus of the schema; "Other" stands for every value
\* outside the enum that a request body may carry, undefined included.
ApplicationStatus == {"Pending", "Denied", "Approved"}

\* The bodies of POST /applications: the well-formed body for each property,
\* and bodies that differ from it in one field (a status of their own, a
\* status outside the enum, an unknown tenant, an unknown property).
CreateBodies ==
    { [propertyId |-> p, tenantCognitoId |-> "t1", status |-> "Pending"]
        : p \in RequestedProperties }
    \cup { [propertyId |-> 1, tenantCognitoId |-> "t1", status |-> s]
        : s \in {"Approved", "Other"} }
    \cup { [propertyId |-> 1, tenantCognitoId |-> "t0", status |-> "Pending"] }

\* The status field of the bodies of PUT /applications/:id/status.
DecideStatuses == {"Approved", "Denied", "Other"}

\* The (pricePerMonth, securityDeposit) pairs a property may have.
Pricings ==
    { [pricePerMonth |-> 1000, securityDeposit |-> 500],
      [pricePerMonth |-> 1500, securityDeposit |-> 750] }

Null == [null |-> TRUE]

VARIABLES
    pricing,        \* Property rows: id -> [pricePerMonth, securityDeposit]
    tenants,        \* Property.tenants relation: id -> set of cognito ids
    leases,         \* committed Lease rows
    applications,   \* committed Application rows
    leaseSeq,       \* Lease.id autoincrement sequence (last value handed out)
    appSeq,         \* Application.id autoincrement sequence
    req,            \* per request: the handler's position, inputs and locals
    response,       \* the response sent last: the request it answers and its code
    tentative,      \* history: application id -> the lease it was created with
    approvalLeases, \* history: <<request, application id, lease id>> per lease
                    \* inserted by an approval
    firstApproval   \* history: application id -> the lease id its first approval set

VARIABLES
    favorites,      \* Tenant.favorites relation: cognito id -> set of property ids
    fav,            \* per favorite request: the handler's position, inputs, answer
    pay,            \* the call of calculateNextPaymentDate: position and locals
    props           \* the call of getProperties: position, query, whereConditions

vars == <<pricing, tenants, leases, applications, leaseSeq, appSeq, req, response,
          tentative, approvalLeases, firstApproval>>

\* The variables of the other controllers, which the application handlers
\* never touch.
others == <<favorites, fav, pay, props>>

allVars == <<vars, others>>

history == <<tentative, approvalLeases, firstApproval>>

db == <<pricing, tenants, leases, applications>>

Idle == [pc |-> "idle"]
Done == [pc |-> "done"]

Init ==
    /\ pricing = [p \in ExistingProperties |-> [pricePerMonth |-> 1000, securityDeposit |-> 500]]
    /\ tenants = [p \in ExistingProperties |-> {}]
    /\ leases = {}
    /\ applications = {}
    /\ leaseSeq = 0
    /\ appSeq = 0
    /\ req = [r \in Requests |-> Idle]
    /\ response = Null
    /\ tentative = << >>
    /\ approvalLeases = {}
    /\ firstApproval = << >>
    /\ favorites = [t \in ExistingTenants |-> {}]
    /\ fav = [r \in FavRequests |-> Idle]
    /\ pay = Idle
    /\ props = Idle

\* Requests are taken in the order of their index: which slot carries which
\* request is not observable.
CanStart(r) ==
    /\ req[r].pc = "idle"
    /\ \A q \in Requests : q < r => req[q].pc # "idle"
    /\ Cardinality({q \in Requests : req[q].pc \notin {"idle", "done"}}) < MaxInFlight


\* res.status(code).json(...): what is sent for `request`.
Respond(request, code) ==
    IF request.op = "createApplication"
    THEN [ op |-> request.op, code |-> code, propertyId |-> request.propertyId,
           tenantCognitoId |-> request.tenantCognitoId, status |-> request.status ]
    ELSE [ op |-> request.op, code |-> code, id |-> request.id,
           status |-> request.status ]

(***************************************************************************)
(* Database calls                                                          *)
(***************************************************************************)

\* prisma.property.findUnique({ where: { id }, select: { pricePerMonth, securityDeposit } })
PropertyFindUnique(propertyId) ==
    IF propertyId \in DOMAIN pricing THEN pricing[propertyId] ELSE Null

\* Mutant: the existence test never fires.
PropertyMissingNever(property) == FALSE

\* if (!property)
PropertyMissing(property) == property = Null

\* A Lease row can be inserted when both rows it connects to exist.
LeaseConnectable(propertyId, tenantCognitoId) ==
    /\ propertyId \in DOMAIN pricing
    /\ tenantCognitoId \in ExistingTenants

\* data of prisma.lease.create: rent and deposit are taken from the property
\* object the handler holds.
LeaseData(id, property, propertyId, tenantCognitoId) ==
    [ id |-> id,
      rent |-> property.pricePerMonth,
      deposit |-> property.securityDeposit,
      propertyId |-> propertyId,
      tenantCognitoId |-> tenantCognitoId ]

\* The status column takes the values of enum ApplicationStatus only.
ValidStatus(status) == status \in ApplicationStatus

\* data of prisma.application.create: status is the body's status field.
ApplicationData(id, status, propertyId, tenantCognitoId, leaseId) ==
    [ id |-> id,
      status |-> status,
      propertyId |-> propertyId,
      tenantCognitoId |-> tenantCognitoId,
      leaseId |-> leaseId ]

\* Mutant: the lease is inserted outside the transaction and survives it.
TxRollbackKeepsLease(committed, inserted) == committed \cup {inserted}

\* Lease rows left when prisma.$transaction rejects: the lease inserted inside
\* the transaction is rolled back with it.
TxRollback(committed, inserted) == committed

\* Lease rows after prisma.$transaction resolves.
TxCommit(committed, inserted) == committed \cup {inserted}

\* prisma.application.findUnique({ where: { id }, include: { property, tenant } })
ApplicationFindUnique(id) ==
    IF \E a \in applications : a.id = id
    THEN LET a == CHOOSE a \in applications : a.id = id
         IN  [ id |-> a.id, status |-> a.status, propertyId |-> a.propertyId,
               tenantCognitoId |-> a.tenantCognitoId, leaseId |-> a.leaseId,
               property |-> pricing[a.propertyId] ]
    ELSE Null

\* Mutant: every decision, Denied included, takes the approval branch.
IsApprovalOrDenial(status) == status \in {"Approved", "Denied"}

\* if (status === 'Approved')
IsApproval(status) == status = "Approved"

\* Mutant: the approval stores the status and clears the lease reference.
ApplicationUpdateApprovedNoLease(rows, id, status, leaseId) ==
    { IF a.id = id THEN [a EXCEPT !.status = status, !.leaseId = 0] ELSE a
      : a \in rows }

\* prisma.application.update({ where: { id }, data: { status, leaseId } })
ApplicationUpdateApproved(rows, id, status, leaseId) ==
    { IF a.id = id THEN [a EXCEPT !.status = status, !.leaseId = leaseId] ELSE a
      : a \in rows }

\* prisma.application.update({ where: { id }, data: { status } })
ApplicationUpdateStatus(rows, id, status) ==
    { IF a.id = id THEN [a EXCEPT !.status = status] ELSE a : a \in rows }

\* Mutant: the property update connects nobody.
PropertyConnectNobody(rel, propertyId, tenantCognitoId) == rel

\* prisma.property.update({ data: { tenants: { connect: { cognitoId } } } })
PropertyConnectTenant(rel, propertyId, tenantCognitoId) ==
    [rel EXCEPT ![propertyId] = @ \cup {tenantCognitoId}]

(***************************************************************************)
(* createApplication                                                       *)
(***************************************************************************)

\* The request arrives and the handler reads the property (404 when absent).
createApplication_findProperty(r) ==
    /\ CanStart(r)
    /\ \E body \in CreateBodies :
        LET property == PropertyFindUnique(body.propertyId)
            request == [op |-> "createApplication"] @@ body
        IN  IF PropertyMissing(property)
            THEN /\ req' = [req EXCEPT ![r] = Done]
                 /\ response' = Respond(request, 404)
            ELSE /\ req' = [req EXCEPT ![r] =
                        request @@ [pc |-> "txLease", property |-> property, lease |-> Null]]
                 /\ UNCHANGED response
    /\ UNCHANGED <<db, leaseSeq, appSeq, history>>

\* First statement of the transaction: prisma.lease.create.  The row stays
\* private to the transaction until it commits; the id sequence does not.
createApplication_leaseCreate(r) ==
    /\ req[r].pc = "txLease"
    /\ IF req[r].property # Null
          /\ LeaseConnectable(req[r].propertyId, req[r].tenantCognitoId)
       THEN /\ leaseSeq' = leaseSeq + 1
            /\ UNCHANGED response
            /\ req' = [req EXCEPT ![r].pc = "txApplication",
                                  ![r].lease = LeaseData(leaseSeq + 1, req[r].property,
                                                   req[r].propertyId, req[r].tenantCognitoId)]
       ELSE /\ req' = [req EXCEPT ![r] = Done]
            /\ response' = Respond(req[r], 500)
            /\ UNCHANGED leaseSeq
    /\ UNCHANGED <<db, appSeq, history>>

\* Second statement: prisma.application.create, then commit and 201; a
\* rejected insert rolls the transaction back and the catch answers 500.
createApplication_applicationCreate(r) ==
    /\ req[r].pc = "txApplication"
    /\ IF ValidStatus(req[r].status)
       THEN /\ leases' = TxCommit(leases, req[r].lease)
            /\ applications' = applications \cup
                  { ApplicationData(appSeq + 1, req[r].status, req[r].propertyId,
                                    req[r].tenantCognitoId, req[r].lease.id) }
            /\ appSeq' = appSeq + 1
            /\ tentative' = tentative @@ ((appSeq + 1) :> req[r].lease.id)
            /\ req' = [req EXCEPT ![r] = Done]
            /\ response' = Respond(req[r], 201)
       ELSE /\ leases' = TxRollback(leases, req[r].lease)
            /\ req' = [req EXCEPT ![r] = Done]
            /\ response' = Respond(req[r], 500)
            /\ UNCHANGED <<applications, appSeq, tentative>>
    /\ UNCHANGED <<pricing, tenants, leaseSeq, approvalLeases, firstApproval>>

(***************************************************************************)
(* updateApplicationStatus                                                 *)
(***************************************************************************)

\* The request arrives and the handler reads the application with its
\* property (404 when absent).  Ids above the sequence all name no row, so
\* one of them stands for all.
updateApplicationStatus_findApplication(r) ==
    /\ CanStart(r)
    /\ \E id \in 1..(appSeq + 1), status \in DecideStatuses :
        LET application == ApplicationFindUnique(id)
            request == [op |-> "updateApplicationStatus", id |-> id, status |-> status]
            locals == [application |-> application, newLease |-> Null]
        IN  IF application = Null
            THEN /\ req' = [req EXCEPT ![r] = Done]
                 /\ response' = Respond(request, 404)
            ELSE /\ req' = [req EXCEPT ![r] =
                        IF IsApproval(status)
                        THEN request @@ locals @@ [pc |-> "createLease"]
                        ELSE request @@ locals @@ [pc |-> "updateStatus"]]
                 /\ UNCHANGED response
    /\ UNCHANGED <<db, leaseSeq, appSeq, history>>

\* prisma.lease.create with the pricing of the property read with the application.
updateApplicationStatus_leaseCreate(r) ==
    /\ req[r].pc = "createLease"
    /\ LET newLease == LeaseData(leaseSeq + 1, req[r].application.property,
                           req[r].application.propertyId,
                           req[r].application.tenantCognitoId)
       IN  /\ leases' = leases \cup {newLease}
           /\ leaseSeq' = leaseSeq + 1
           /\ approvalLeases' = approvalLeases \cup {<<r, req[r].id, newLease.id>>}
           /\ req' = [req EXCEPT ![r].pc = "connectTenant", ![r].newLease = newLease]
    /\ UNCHANGED <<pricing, tenants, applications, appSeq, response, tentative,
                   firstApproval>>

\* prisma.property.update connecting the tenant.
updateApplicationStatus_propertyUpdate(r) ==
    /\ req[r].pc = "connectTenant"
    /\ tenants' = PropertyConnectTenant(tenants, req[r].application.propertyId,
                                        req[r].application.tenantCognitoId)
    /\ req' = [req EXCEPT ![r].pc = "updateApplication"]
    /\ UNCHANGED <<pricing, leases, applications, leaseSeq, appSeq, response, history>>

\* prisma.application.update with the status and the new lease id.
updateApplicationStatus_applicationUpdate(r) ==
    /\ req[r].pc = "updateApplication"
    /\ applications' = ApplicationUpdateApproved(applications, req[r].id,
                                                 req[r].status, req[r].newLease.id)
    /\ req' = [req EXCEPT ![r].pc = "refetch"]
    /\ firstApproval' = IF req[r].id \in DOMAIN firstApproval
                        THEN firstApproval
                        ELSE firstApproval @@ (req[r].id :> req[r].newLease.id)
    /\ UNCHANGED <<pricing, tenants, leases, leaseSeq, appSeq, response, tentative,
                   approvalLeases>>

\* else branch: prisma.application.update with the status alone; a value
\* outside the enum is rejected and the catch answers 500.
updateApplicationStatus_statusUpdate(r) ==
    /\ req[r].pc = "updateStatus"
    /\ IF ValidStatus(req[r].status)
       THEN /\ applications' = ApplicationUpdateStatus(applications, req[r].id, req[r].status)
            /\ req' = [req EXCEPT ![r].pc = "refetch"]
            /\ UNCHANGED response
       ELSE /\ req' = [req EXCEPT ![r] = Done]
            /\ response' = Respond(req[r], 500)
            /\ UNCHANGED applications
    /\ UNCHANGED <<pricing, tenants, leases, leaseSeq, appSeq, history>>

\* The closing findUnique and res.json.
updateApplicationStatus_respond(r) ==
    /\ req[r].pc = "refetch"
    /\ req' = [req EXCEPT ![r] = Done]
    /\ response' = Respond(req[r], 200)
    /\ UNCHANGED <<db, leaseSeq, appSeq, history>>

(***************************************************************************)
(* Property pricing is mutable                                             *)
(***************************************************************************)

\* Another request changes a property's price and deposit.
UpdatePricing ==
    /\ \E p \in DOMAIN pricing, v \in Pricings :
        /\ v # pricing[p]
        /\ pricing' = [pricing EXCEPT ![p] = v]
    /\ UNCHANGED <<tenants, leases, applications, leaseSeq, appSeq, req, response,
                   history>>

Next ==
    \/ \E r \in Requests : createApplication_findProperty(r) /\ UNCHANGED others
    \/ \E r \in Requests : createApplication_leaseCreate(r) /\ UNCHANGED others
    \/ \E r \in Requests : createApplication_applicationCreate(r) /\ UNCHANGED others
    \/ \E r \in Requests : updateApplicationStatus_findApplication(r) /\ UNCHANGED others
    \/ \E r \in Requests : updateApplicationStatus_leaseCreate(r) /\ UNCHANGED others
    \/ \E r \in Requests : updateApplicationStatus_propertyUpdate(r) /\ UNCHANGED others
    \/ \E r \in Requests : updateApplicationStatus_applicationUpdate(r) /\ UNCHANGED others
    \/ \E r \in Requests : updateApplicationStatus_statusUpdate(r) /\ UNCHANGED others
    \/ \E r \in Requests : updateApplicationStatus_respond(r) /\ UNCHANGED others
    \/ UpdatePricing /\ UNCHANGED others

Spec == Init /\ [][Next]_allVars

(***************************************************************************)
(* Properties                                                              *)
(***************************************************************************)

Terminal == {"Approved", "Denied"}

ApplicationIds == {a.id : a \in applications}
Application(id) == CHOOSE a \in applications : a.id = id
LeaseIds == {l.id : l \in leases}

\* C1: once an application's status is Approved or Denied, no step changes
\* that application's status.
C1_TerminalStatusKept ==
    [][\A a \in applications : a.status \in Terminal =>
          \A b \in applications' : b.id = a.id => b.status = a.status]_vars

\* C2: per application at most one lease is inserted by approvals, however
\* many Decide(Approved) requests it gets and however they interleave.  (The
\* tenants relation is a set of rows keyed by the pair, so the tenant is
\* linked at most once in every state; the leases decide the claim.)
C2_OneApprovalLease ==
    \A id \in ApplicationIds :
        Cardinality({t \in approvalLeases : t[2] = id}) <= 1

\* The request a step of handler r works for: read from the handler's record,
\* or from the response when the step is the one that answers.
StepOf(r) == req'[r] # req[r]
RequestAfter(r) == IF req'[r] = Done THEN response' ELSE req'[r]
Answered(r, code) == req'[r] = Done /\ req[r] # Done /\ response'.code = code

\* C3: a step of a createApplication handler either answers 201 and adds
\* exactly one Lease row and one Application row referencing it, or leaves the
\* Lease and Application rows as they were; in particular a rejected insert
\* (unknown tenant, status outside the enum) persists nothing.
C3_CreateAllOrNothing ==
    [][\A r \in Requests :
          (StepOf(r) /\ RequestAfter(r).op = "createApplication") =>
             IF Answered(r, 201)
             THEN \E l \in leases' \ leases, a \in applications' \ applications :
                     /\ leases' = leases \cup {l}
                     /\ applications' = applications \cup {a}
                     /\ a.leaseId = l.id
                     /\ l.id \notin LeaseIds
                     /\ a.id \notin ApplicationIds
             ELSE leases' = leases /\ applications' = applications]_vars

\* C3 witness: the application insert was rejected after the lease insert of
\* the same transaction went through (a lease id was handed out, no row kept).
C3_Witness ==
    /\ response # Null
    /\ response.op = "createApplication"
    /\ response.code = 500
    /\ response.status = "Other"
    /\ leaseSeq > 0
    /\ leaseSeq \notin LeaseIds

\* C4: a createApplication request for a property id that names no row is
\* answered 404 at once and leaves every row as it was.
C4_CreateUnknownProperty ==
    [][\A r \in Requests :
          ( /\ req[r].pc = "idle"
            /\ StepOf(r)
            /\ RequestAfter(r).op = "createApplication"
            /\ RequestAfter(r).propertyId \notin DOMAIN pricing ) =>
             /\ Answered(r, 404)
             /\ UNCHANGED <<db, leaseSeq, appSeq>>]_vars

\* C4 witness: a create request for the unknown property was answered 404.
C4_Witness ==
    /\ response # Null
    /\ response.op = "createApplication"
    /\ response.propertyId \notin DOMAIN pricing
    /\ response.code = 404

\* C5: every Application row that createApplication inserts has status
\* Pending, whatever the request body carries.
C5_CreatedPending ==
    [][\A a \in applications' : a.id \notin ApplicationIds => a.status = "Pending"]_vars

\* Lease rows inserted so far, those of open transactions included.
InsertedLeases ==
    leases \cup {req[r].lease : r \in {q \in Requests : req[q].pc = "txApplication"}}

\* C6: every lease row, at the step that inserts it, carries the rent and
\* deposit the property row holds at that step.
C6_LeasePricingAtInsert ==
    [][\A l \in InsertedLeases' :
          l.id > leaseSeq =>
             /\ l.rent = pricing[l.propertyId].pricePerMonth
             /\ l.deposit = pricing[l.propertyId].securityDeposit]_vars

\* C7: every Approved application references an existing Lease row.
C7_ApprovedHasLease ==
    \A a \in applications : a.status = "Approved" => a.leaseId \in LeaseIds

\* C7 witness: an application approved by updateApplicationStatus, holding the
\* lease of that approval.
C7_Witness ==
    \E a \in applications :
        /\ a.status = "Approved"
        /\ a.id \in DOMAIN firstApproval
        /\ a.leaseId # tentative[a.id]
        /\ a.leaseId \in LeaseIds

\* C8: once an approval has set an application's lease reference, the
\* application keeps that lease reference in every later state.
C8_LeaseReferenceFixed ==
    \A id \in DOMAIN firstApproval : Application(id).leaseId = firstApproval[id]

\* C9: the approval of an application read as Pending has, when it stores the
\* status, inserted exactly one Lease row (for the application's property and
\* tenant), connected the tenant to the property, and made the application
\* Approved with that lease; the lease created at submission is still a row
\* and is not the one referenced.
C9_ApprovalEffect ==
    [][\A r \in Requests :
          ( /\ req[r].pc = "updateApplication"
            /\ req'[r].pc = "refetch"
            /\ req[r].application.status = "Pending" ) =>
             LET seen == req[r].application
                 made == {t[3] : t \in {u \in approvalLeases' : u[1] = r}}
                 after == CHOOSE a \in applications' : a.id = req[r].id
             IN  /\ Cardinality(made) = 1
                 /\ \E l \in leases' :
                       /\ made = {l.id}
                       /\ l.propertyId = seen.propertyId
                       /\ l.tenantCognitoId = seen.tenantCognitoId
                       /\ after.leaseId = l.id
                 /\ seen.tenantCognitoId \in tenants'[seen.propertyId]
                 /\ after.status = "Approved"
                 /\ tentative'[req[r].id] \in LeaseIds'
                 /\ tentative'[req[r].id] # after.leaseId]_vars

\* C9 witness: an approval of an application read as Pending has stored the
\* status and is about to answer.
C9_Witness ==
    \E r \in Requests :
        /\ req[r].pc = "refetch"
        /\ req[r].status = "Approved"
        /\ req[r].application.status = "Pending"

\* C10: a step of an updateApplicationStatus handler whose target status is
\* not Approved leaves the Lease rows, every property's tenants and every
\* application's lease reference as they were, and touches no other
\* application.
C10_OtherStatusFrame ==
    [][\A r \in Requests :
          ( /\ StepOf(r)
            /\ RequestAfter(r).op = "updateApplicationStatus"
            /\ RequestAfter(r).status # "Approved" ) =>
             /\ leases' = leases
             /\ tenants' = tenants
             /\ pricing' = pricing
             /\ ApplicationIds' = ApplicationIds
             /\ \A a \in applications :
                   \E b \in applications' :
                      /\ b.id = a.id
                      /\ b.leaseId = a.leaseId
                      /\ a.id # RequestAfter(r).id => b = a]_vars

\* C10 witness: a Decide(Denied) was answered 200 and the application is Denied.
C10_Witness ==
    /\ response # Null
    /\ response.op = "updateApplicationStatus"
    /\ response.status = "Denied"
    /\ response.code = 200
    /\ \E a \in applications : a.id = response.id /\ a.status = "Denied"

(***************************************************************************)
(* Tenant favorites: addFavoriteProperty, removeFavoriteProperty           *)
(***************************************************************************)

\* The route parameters of /tenants/:cognitoId/favorites/:propertyId.
FavParams ==
    [cognitoId : ExistingTenants \cup {"t0"}, propertyId : RequestedProperties]

FavCanStart(r) ==
    /\ fav[r].pc = "idle"
    /\ \A q \in FavRequests : q < r => fav[q].pc # "idle"

\* res.json(...) / res.status(code).json(...) of a favorite handler.
FavRespond(request, code) ==
    [ pc |-> "done", op |-> request.op, cognitoId |-> request.cognitoId,
      propertyId |-> request.propertyId, code |-> code ]

\* prisma.tenant.findUnique({ where: { cognitoId }, include: { favorites: true } })
\* followed by `tenant?.favorites || []`.
ExistingFavorites(cognitoId) ==
    IF cognitoId \in DOMAIN favorites THEN favorites[cognitoId] ELSE {}

\* prisma.tenant.update with favorites connect: rejected when the tenant or
\* the property is no row.
FavConnectable(cognitoId, propertyId) ==
    /\ cognitoId \in DOMAIN favorites
    /\ propertyId \in ExistingProperties

\* The request arrives, the handler reads the tenant with its favorites and
\* tests membership: 409 when the property is among them.
addFavoriteProperty_findTenant(r) ==
    /\ FavCanStart(r)
    /\ \E params \in FavParams :
        LET request == [op |-> "addFavoriteProperty"] @@ params
            existingFavorites == ExistingFavorites(params.cognitoId)
        IN  fav' = [fav EXCEPT ![r] =
                IF params.propertyId \notin existingFavorites
                THEN request @@ [pc |-> "update"]
                ELSE FavRespond(request, 409)]
    /\ UNCHANGED <<favorites, pay, props, vars>>

\* prisma.tenant.update connecting the property, then res.json; a rejected
\* update is answered 500 by the catch.
addFavoriteProperty_update(r) ==
    /\ fav[r].pc = "update"
    /\ IF FavConnectable(fav[r].cognitoId, fav[r].propertyId)
       THEN /\ favorites' = [favorites EXCEPT ![fav[r].cognitoId] = @ \cup {fav[r].propertyId}]
            /\ fav' = [fav EXCEPT ![r] = FavRespond(fav[r], 200)]
       ELSE /\ fav' = [fav EXCEPT ![r] = FavRespond(fav[r], 500)]
            /\ UNCHANGED favorites
    /\ UNCHANGED <<pay, props, vars>>

\* removeFavoriteProperty: one prisma.tenant.update disconnecting the
\* property (no row of the relation: nothing to delete), then res.json.
removeFavoriteProperty(r) ==
    /\ FavCanStart(r)
    /\ \E params \in FavParams :
        LET request == [op |-> "removeFavoriteProperty"] @@ params
        IN  IF params.cognitoId \in DOMAIN favorites
            THEN /\ favorites' = [favorites EXCEPT ![params.cognitoId] = @ \ {params.propertyId}]
                 /\ fav' = [fav EXCEPT ![r] = FavRespond(request, 200)]
            ELSE /\ fav' = [fav EXCEPT ![r] = FavRespond(request, 500)]
                 /\ UNCHANGED favorites
    /\ UNCHANGED <<pay, props, vars>>

FavNext ==
    \/ \E r \in FavRequests : addFavoriteProperty_findTenant(r)
    \/ \E r \in FavRequests : addFavoriteProperty_update(r)
    \/ \E r \in FavRequests : removeFavoriteProperty(r)

FavSpec == Init /\ [][FavNext]_allVars

\* The add requests for tenant t and property p.
AddsFor(t, p) ==
    { r \in FavRequests :
        /\ fav[r].pc # "idle"
        /\ fav[r].op = "addFavoriteProperty"
        /\ fav[r].cognitoId = t
        /\ fav[r].propertyId = p }

\* C11: when the requests received are all add-favorite requests and those
\* for one tenant and property have all been answered, exactly one of them
\* was answered with success and every other with 409, and the property is
\* among the tenant's favorites, whether the requests ran one after another
\* or interleaved.
C11_DuplicateAddConflict ==
    \A t \in ExistingTenants, p \in ExistingProperties :
        ( /\ AddsFor(t, p) # {}
          /\ \A r \in AddsFor(t, p) : fav[r].pc = "done"
          /\ \A r \in FavRequests :
                fav[r].pc # "idle" => fav[r].op = "addFavoriteProperty" ) =>
            /\ Cardinality({r \in AddsFor(t, p) : fav[r].code = 200}) = 1
            /\ \A r \in AddsFor(t, p) : fav[r].code \in {200, 409}
            /\ p \in favorites[t]

(***************************************************************************)
(* listApplications: calculateNextPaymentDate                              *)
(*                                                                         *)
(* A Date is <<year, month, day, time of day>>, months counted 1..12; the  *)
(* order of Dates is the order of their timestamps.                        *)
(***************************************************************************)

PayYears == {2023, 2024}
DayTimes == {0, 1}

IsLeapYear(y) == y % 4 = 0 /\ (y % 100 # 0 \/ y % 400 = 0)

DaysInMonth(y, m) ==
    IF m = 2 THEN (IF IsLeapYear(y) THEN 29 ELSE 28)
    ELSE IF m \in {4, 6, 9, 11} THEN 30 ELSE 31

IsDate(date) == date[3] <= DaysInMonth(date[1], date[2])

\* lease.startDate values: the first, the middle and the last days of a month.
StartDates ==
    { date \in PayYears \X (1..12) \X {1, 15, 28, 29, 30, 31} \X DayTimes : IsDate(date) }

\* Values of new Date() at the call.
Todays == PayYears \X (1..12) \X {1, 10, 28} \X DayTimes

\* a <= b on Dates.
DateLeq(a, b) ==
    \/ a[1] < b[1]
    \/ a[1] = b[1] /\ a[2] < b[2]
    \/ a[1] = b[1] /\ a[2] = b[2] /\ a[3] < b[3]
    \/ a[1] = b[1] /\ a[2] = b[2] /\ a[3] = b[3] /\ a[4] <= b[4]

\* date.setMonth(date.getMonth() + 1): the month field is raised by one with
\* the day field kept, and a day past the end of that month runs over into
\* the month after it (Date normalisation).
SetMonthPlusOne(date) ==
    LET y == IF date[2] = 12 THEN date[1] + 1 ELSE date[1]
        m == IF date[2] = 12 THEN 1 ELSE date[2] + 1
        dim == DaysInMonth(y, m)
    IN  IF date[3] <= dim
        THEN <<y, m, date[3], date[4]>>
        ELSE <<y, m + 1, date[3] - dim, date[4]>>

\* const today = new Date(); const nextPaymentDate = new Date(startDate)
calculateNextPaymentDate_call ==
    /\ pay.pc = "idle"
    /\ \E startDate \in StartDates, today \in Todays :
        pay' = [ pc |-> "while", startDate |-> startDate, today |-> today,
                 nextPaymentDate |-> startDate ]
    /\ UNCHANGED <<favorites, fav, props, vars>>

\* while (nextPaymentDate <= today) nextPaymentDate.setMonth(...)
calculateNextPaymentDate_while ==
    /\ pay.pc = "while"
    /\ DateLeq(pay.nextPaymentDate, pay.today)
    /\ pay' = [pay EXCEPT !.nextPaymentDate = SetMonthPlusOne(@)]
    /\ UNCHANGED <<favorites, fav, props, vars>>

\* return nextPaymentDate
calculateNextPaymentDate_return ==
    /\ pay.pc = "while"
    /\ ~DateLeq(pay.nextPaymentDate, pay.today)
    /\ pay' = [pay EXCEPT !.pc = "done"]
    /\ UNCHANGED <<favorites, fav, props, vars>>

PayNext ==
    \/ calculateNextPaymentDate_call
    \/ calculateNextPaymentDate_while
    \/ calculateNextPaymentDate_return

PaySpec == Init /\ [][PayNext]_allVars

\* The start date moved k calendar months on with its day of month kept.
MonthAnchored(date, k) ==
    << date[1] + ((date[2] - 1 + k) \div 12), ((date[2] - 1 + k) % 12) + 1,
       date[3], date[4] >>

\* C12: the date returned is the start date moved on by the smallest number
\* k >= 0 of whole calendar months that brings it strictly after today, with
\* the start date's day of month.
C12_NextPaymentMonthAnchored ==
    pay.pc = "done" =>
        \E k \in 0..(12 * (Cardinality(PayYears) + 1)) :
            /\ pay.nextPaymentDate = MonthAnchored(pay.startDate, k)
            /\ ~DateLeq(pay.nextPaymentDate, pay.today)
            /\ \A j \in 0..(k - 1) : DateLeq(MonthAnchored(pay.startDate, j), pay.today)

(***************************************************************************)
(* getProperties                                                           *)
(*                                                                         *)
(* req.query maps each parameter the request carries to its string, a      *)
(* sequence of characters; every parameter is given at most once, so no    *)
(* value is an array and nothing in the try block throws.                  *)
(***************************************************************************)

MaxParams == 2

\* The keys the claim lists, and the key the handler destructures for the
\* availability date.
RecognisedParams ==
    { "favoriteIds", "priceMin", "priceMax", "beds", "baths", "squareFeetMin",
      "squareFeetMax", "propertyType", "amenities", "availableFrom",
      "latitude", "longitude" }
QueryKeys == RecognisedParams \cup {"avaiableFrom"}

AnySentinel == <<"a", "n", "y">>

\* "2", "1,2", "1a", " ", "any", "2024", ""
QueryValues ==
    { <<"2">>, <<"1", ",", "2">>, <<"1", "a">>, <<" ">>, AnySentinel,
      <<"2", "0", "2", "4">>, <<>> }

Queries ==
    UNION { [keys -> QueryValues] :
            keys \in { k \in SUBSET QueryKeys : Cardinality(k) <= MaxParams } }

DigitChars == <<"0", "1", "2", "3", "4", "5", "6", "7", "8", "9">>
IsDigit(c) == \E i \in DOMAIN DigitChars : DigitChars[i] = c
DigitValue(c) == (CHOOSE i \in DOMAIN DigitChars : DigitChars[i] = c) - 1
IsDigits(s) == s # <<>> /\ \A i \in DOMAIN s : IsDigit(s[i])

RECURSIVE Decimal(_)
Decimal(s) ==
    IF s = <<>> THEN 0
    ELSE 10 * Decimal(SubSeq(s, 1, Len(s) - 1)) + DigitValue(s[Len(s)])

RECURSIVE TrimStart(_)
TrimStart(s) == IF s # <<>> /\ Head(s) = " " THEN TrimStart(Tail(s)) ELSE s

RECURSIVE TrimEnd(_)
TrimEnd(s) ==
    IF s # <<>> /\ s[Len(s)] = " " THEN TrimEnd(SubSeq(s, 1, Len(s) - 1)) ELSE s

RECURSIVE DigitPrefix(_)
DigitPrefix(s) ==
    IF s # <<>> /\ IsDigit(Head(s)) THEN <<Head(s)>> \o DigitPrefix(Tail(s)) ELSE <<>>

NaN == [nan |-> TRUE, val |-> 0]
Num(n) == [nan |-> FALSE, val |-> n]

\* Number(string): white space is trimmed; the empty string is 0; a decimal
\* integer literal is its value; anything else over these characters is NaN.
Number(s) ==
    LET t == TrimEnd(TrimStart(s))
    IN  IF t = <<>> THEN Num(0)
        ELSE IF IsDigits(t) THEN Num(Decimal(t))
        ELSE NaN

\* parseFloat(string): leading white space is skipped and the longest prefix
\* that is a decimal literal is converted; NaN when there is no such prefix.
parseFloat(s) ==
    LET t == DigitPrefix(TrimStart(s))
    IN  IF t = <<>> THEN NaN ELSE Num(Decimal(t))

\* string.split(',')
RECURSIVE Split(_)
Split(s) ==
    IF \A i \in DOMAIN s : s[i] # ","
    THEN <<s>>
    ELSE LET i == CHOOSE j \in DOMAIN s :
                      s[j] = "," /\ \A h \in 1..(j - 1) : s[h] # ","
         IN  <<SubSeq(s, 1, i - 1)>> \o Split(SubSeq(s, i + 1, Len(s)))

\* array.map(Number)
MapNumber(a) == [i \in DOMAIN a |-> Number(a[i])]

\* !isNaN(new Date(string).getTime()): a four-digit year is a date-time
\* string and parses; a string without a digit does not; what any other
\* string gives is left to the implementation.
DateParses(s) ==
    IF Len(s) = 4 /\ IsDigits(s) THEN {TRUE}
    ELSE IF \A i \in DOMAIN s : ~IsDigit(s[i]) THEN {FALSE}
    ELSE BOOLEAN

\* if (x): a parameter that is absent (undefined) or the empty string is falsy.
Truthy(query, key) == key \in DOMAIN query /\ query[key] # <<>>

Clause(sql, args) == [sql |-> sql, args |-> args]

\* The clauses the handler pushes for one parameter, as a sequence.
NumberClause(query, key, sql, sentinel) ==
    IF Truthy(query, key) /\ (sentinel => query[key] # AnySentinel)
    THEN <<Clause(sql, <<Number(query[key])>>)>> ELSE <<>>

whereConditionsOf(query, dateValid) ==
    (IF Truthy(query, "favoriteIds")
     THEN <<Clause("p.id IN", MapNumber(Split(query["favoriteIds"])))>> ELSE <<>>)
    \o NumberClause(query, "priceMin", "p.pricePerMonth >=", FALSE)
    \o NumberClause(query, "priceMax", "p.pricePerMonth <=", FALSE)
    \o NumberClause(query, "beds", "p.beds >=", TRUE)
    \o NumberClause(query, "baths", "p.baths >=", TRUE)
    \o NumberClause(query, "squareFeetMin", "p.squareFeet >=", FALSE)
    \o NumberClause(query, "squareFeetMax", "p.squareFeet <=", FALSE)
    \o (IF Truthy(query, "propertyType") /\ query["propertyType"] # AnySentinel
        THEN <<Clause("p.propertyType =", <<query["propertyType"]>>)>> ELSE <<>>)
    \o (IF Truthy(query, "amenities") /\ query["amenities"] # AnySentinel
        THEN <<Clause("p.amenities @>", Split(query["amenities"]))>> ELSE <<>>)
    \o (IF Truthy(query, "avaiableFrom") /\ query["avaiableFrom"] # AnySentinel /\ dateValid
        THEN <<Clause("EXISTS Lease l.startDate <=", <<query["avaiableFrom"]>>)>>
        ELSE <<>>)
    \o (IF Truthy(query, "latitude") /\ Truthy(query, "longitude")
        THEN <<Clause("ST_DWithin",
                      <<parseFloat(query["longitude"]), parseFloat(query["latitude"])>>)>>
        ELSE <<>>)

\* The whole handler: it awaits nothing.  On this path it builds
\* whereConditions and returns; no status is sent.
getProperties ==
    /\ props.pc = "idle"
    /\ \E query \in Queries :
        \E dateValid \in (IF "avaiableFrom" \in DOMAIN query
                          THEN DateParses(query["avaiableFrom"]) ELSE {TRUE}) :
            props' = [ pc |-> "done", query |-> query,
                       whereConditions |-> whereConditionsOf(query, dateValid),
                       sent |-> {} ]
    /\ UNCHANGED <<favorites, fav, pay, vars>>

PropsNext == getProperties

PropsSpec == Init /\ [][PropsNext]_allVars

\* The number of clauses of the given text among whereConditions.
ClauseCount(sql) ==
    Cardinality({ i \in DOMAIN props.whereConditions : props.whereConditions[i].sql = sql })

SentinelParams == {"beds", "baths", "propertyType", "amenities", "availableFrom"}

\* A parameter is given when the request carries a non-empty value for it,
\* and asks for a clause unless it is the sentinel of a parameter that has one.
Given(key) == key \in DOMAIN props.query /\ props.query[key] # <<>>
AsksClause(key) ==
    Given(key) /\ ~(key \in SentinelParams /\ props.query[key] = AnySentinel)

ClauseSql ==
    [ favoriteIds |-> "p.id IN", priceMin |-> "p.pricePerMonth >=",
      priceMax |-> "p.pricePerMonth <=", beds |-> "p.beds >=", baths |-> "p.baths >=",
      squareFeetMin |-> "p.squareFeet >=", squareFeetMax |-> "p.squareFeet <=",
      propertyType |-> "p.propertyType =", amenities |-> "p.amenities @>",
      availableFrom |-> "EXISTS Lease l.startDate <=" ]

\* C13: every recognised parameter that is given and not a sentinel yields
\* exactly one clause, an absent or sentinel parameter yields none, latitude
\* and longitude yield one clause together exactly when both are given, and
\* whereConditions holds nothing else.  (An availability date that fails to
\* parse is allowed to yield no clause.)
C13_OneClausePerParameter ==
    props.pc = "done" =>
        /\ \A key \in DOMAIN ClauseSql :
            IF AsksClause(key)
            THEN \/ ClauseCount(ClauseSql[key]) = 1
                 \/ /\ key = "availableFrom"
                    /\ FALSE \in DateParses(props.query[key])
                    /\ ClauseCount(ClauseSql[key]) = 0
            ELSE ClauseCount(ClauseSql[key]) = 0
        /\ ClauseCount("ST_DWithin") =
              (IF Given("latitude") /\ Given("longitude") THEN 1 ELSE 0)
        /\ \A i \in DOMAIN props.whereConditions :
              \/ props.whereConditions[i].sql = "ST_DWithin"
              \/ \E key \in DOMAIN ClauseSql : props.whereConditions[i].sql = ClauseSql[key]

NumericParams ==
    { "priceMin", "priceMax", "beds", "baths", "squareFeetMin", "squareFeetMax",
      "latitude", "longitude" }

\* A well-formed number: decimal digits, with nothing before or after them.
WellFormed(s) == IsDigits(s)

\* The given numeric parameters whose value is not a well-formed number.
Malformed ==
    { key \in NumericParams : AsksClause(key) /\ ~WellFormed(props.query[key]) }
    \cup { key \in {"favoriteIds"} :
             /\ Given(key)
             /\ \E i \in DOMAIN Split(props.query[key]) :
                   ~WellFormed(Split(props.query[key])[i]) }

MalformedSql(key) ==
    IF key \in {"latitude", "longitude"} THEN "ST_DWithin" ELSE ClauseSql[key]

\* C14: a search with a malformed numeric parameter is answered with a 4xx
\* status, and no clause is built from the malformed value.
C14_MalformedNumberRejected ==
    (props.pc = "done" /\ Malformed # {}) =>
        /\ \E code \in props.sent : code \in 400..499
        /\ \A key \in Malformed : ClauseCount(MalformedSql(key)) = 0

(***************************************************************************)
(* listApplications                                                        *)
(*                                                                         *)
(* The handler runs in a request slot like the other application handlers. *)
(* nextPaymentDate, which it adds to every lease it attaches, is the       *)
(* function modelled above and is left out of the items.                   *)
(***************************************************************************)

\* req.query: a tenant filter, or none (manager rows are not modelled).
ListQueries == [userType : {"tenant", "none"}, userId : ExistingTenants \cup {"t0"}]

\* where: whereClause
WhereClause(query, application) ==
    query.userType = "tenant" => application.tenantCognitoId = query.userId

\* lease.startDate is new Date() of the step that inserts the lease, and the
\* id sequence moves in the same step: start dates order the leases as their
\* ids do.
startDate(lease) == lease.id

\* prisma.lease.findFirst({ where: { tenant: { cognitoId }, propertyId },
\*                          orderBy: { startDate: 'desc' } })
LeaseFindFirst(tenantCognitoId, propertyId) ==
    LET found == { l \in leases : /\ l.tenantCognitoId = tenantCognitoId
                                  /\ l.propertyId = propertyId }
    IN  IF found = {} THEN Null
        ELSE CHOOSE l \in found : \A m \in found : startDate(m) <= startDate(l)

\* The request arrives: prisma.application.findMany.
listApplications_findMany(r) ==
    /\ CanStart(r)
    /\ \E query \in ListQueries :
        req' = [req EXCEPT ![r] =
                  [ op |-> "listApplications", pc |-> "findFirst",
                    applications |-> { a \in applications : WhereClause(query, a) },
                    formattedApplications |-> {} ]]
    /\ UNCHANGED <<db, leaseSeq, appSeq, response, history>>

\* One of the callbacks of applications.map: its findFirst and its item.
listApplications_findFirst(r) ==
    /\ req[r].pc = "findFirst"
    /\ \E application \in req[r].applications :
        /\ \A item \in req[r].formattedApplications : item.application # application
        /\ req' = [req EXCEPT ![r].formattedApplications = @ \cup
                     { [ application |-> application,
                         lease |-> LeaseFindFirst(application.tenantCognitoId,
                                                  application.propertyId) ] }]
    /\ UNCHANGED <<db, leaseSeq, appSeq, response, history>>

\* Promise.all has resolved: res.json(formattedApplications)
listApplications_respond(r) ==
    /\ req[r].pc = "findFirst"
    /\ \A application \in req[r].applications :
          \E item \in req[r].formattedApplications : item.application = application
    /\ response' = [ op |-> req[r].op, code |-> 200,
                     formattedApplications |-> req[r].formattedApplications ]
    /\ req' = [req EXCEPT ![r] = Done]
    /\ UNCHANGED <<db, leaseSeq, appSeq, history>>

ListNext ==
    \/ Next
    \/ \E r \in Requests : listApplications_findMany(r) /\ UNCHANGED others
    \/ \E r \in Requests : listApplications_findFirst(r) /\ UNCHANGED others
    \/ \E r \in Requests : listApplications_respond(r) /\ UNCHANGED others

ListSpec == Init /\ [][ListNext]_allVars

\* C15: in every list that is sent, the lease attached to an application is
\* the lease the application's own leaseId points to.
C15_ListedLeaseIsOwnLease ==
    (response # Null /\ response.op = "listApplications") =>
        \A item \in response.formattedApplications :
            /\ item.lease # Null
            /\ item.lease.id = item.application.leaseId

====
